---------------------------- MODULE Spec2Model ----------------------------
(***************************************************************************)
(* Model of src/script.js: class CustomScroll, an iOS-like scroller with   *)
(* the states Drag, Decel, Spring and Idle.                                *)
(*                                                                         *)
(* Numbers.  The JavaScript fields pos, vel and springTarget are doubles.  *)
(* They are modelled as fixed-point numbers: an integer n stands for the   *)
(* value n / SCALE.  Products with the fractional constants of the code    *)
(* (0.4, 0.95, 0.15, 1/60) are rounded to the nearest multiple of the      *)
(* quantum 1 / SCALE.  Pointer coordinates (clientY) are whole pixels and  *)
(* timestamps (performance.now()) are whole milliseconds.                  *)
(***************************************************************************)
EXTENDS Integers, Sequences, FiniteSets, TLC

\* ------------------------------------------------------------------------
\* Fixed-point arithmetic
\* ------------------------------------------------------------------------

\* Units per pixel of the fixed-point representation of a double.
SCALE == 100

Abs(x) == IF x < 0 THEN -x ELSE x

MaxOf(a, b) == IF a >= b THEN a ELSE b

MinOf(a, b) == IF a <= b THEN a ELSE b

\* a / b rounded to the nearest integer (b > 0), halves towards +infinity.
RoundDiv(a, b) == (2 * a + b) \div (2 * b)

\* x * (pct / 100), rounded to the quantum.
Pct(x, pct) == RoundDiv(x * pct, 100)

\* Math.round of a fixed-point number, as a whole number of pixels.
MathRound(x) == RoundDiv(x, SCALE)

\* ------------------------------------------------------------------------
\* Constants of the program (constructor)
\* ------------------------------------------------------------------------

\* this.FRICTION = 0.95, in percent.
FRICTION == 95

\* this.SPRING_K = 0.15, in percent.
SPRING_K == 15

\* this.STOP_VEL = 5 (px/s).
STOP_VEL == 5

\* this.MAX_VEL = 2000 (px/s).
MAX_VEL == 2000

\* The rubber-band factor 0.4 of pointermove, in percent.
RUBBER == 40

\* The nominal frame rate: dt = 1/60 s per frame.
FPS == 60

\* moveHistory keeps at most this many entries.
HISTORY_CAP == 5

\* Minimal height of the thumb, px.
MIN_THUMB == 20

\* ------------------------------------------------------------------------
\* Bounds of the model and input sets
\* ------------------------------------------------------------------------

\* At most this many pointer events that change the controller in a run of
\* Spec (pointerdown, pointermove in Drag, pointerup, pointercancel).
MaxEvents == 6

\* At most this many pointerdown and pointermove events in a run of DragSpec.
MaxDragEvents == 7

\* At most this many pointer events that change the controller in a run of
\* LiveSpec.
MaxLiveEvents == 4

\* At most this many pointer events in a run of ScenarioSpec.
MaxScenarioEvents == 3
MaxThumbEvents == 4

\* The geometry of the end-to-end scenario: viewport 500, content 1500.
\* Geometries whose content fits the viewport: this.max is 0.
FittingGeometries == { <<100, 100>>, <<100, 80>> }

ScenarioGeometries == { <<500, 1500>> }

\* The values of e.clientY in the scenario: a drag by 300 px, either way.
ScenarioYs == { 0, 300 }

\* The pointermove inputs of the scenario, 16 ms after the pointerdown.
ScenarioMoves == { <<0, 16>>, <<300, 16>> }

\* Geometries <<viewport.clientHeight, content.scrollHeight>> at construction.
Geometries == { <<100, 100>>, <<100, 140>>, <<100, 160>> }

\* Values of e.clientY at a pointerdown.
Ys == { 0, 40 }

\* Inputs of a pointermove: <<e.clientY, time elapsed since the last read of
\* performance.now(), ms>>.
MoveInputs == { <<0, 16>>, <<40, 16>>, <<40, 7700>>, <<0, 0>> }

\* Time elapsed since the last read of performance.now() at a pointerdown, ms.
DownDts == { 16 }

\* Values of e.pointerId (opaque identifiers).
PointerIds == { "p1" }

\* The value null of this.pointerId.
NULL == "null"

VARIABLES
    vh, ch, min, max,          \* geometry and bounds
    pos, vel,                  \* position and velocity (fixed point)
    springTarget,              \* target of the spring (fixed point)
    state,                     \* "Drag" | "Decel" | "Spring" | "Idle"
    pointerId, lastY, lastMoveTime, moveHistory,
    capture,                   \* host: pointer captured by the viewport
    active,                    \* host: viewport has class "active"
    contentY,                  \* host: content translate3d y, px
    thumbHeight, thumbY,       \* host: thumb height and translateY
    ev,                        \* the name of the last event handled
    pre,                       \* the fields the last event started from
    sessionLog,                \* the moves handled since the last pointerdown
    sessionFrom,               \* pos at the last pointerdown
    sessionInside,             \* every move since then started within bounds
    sessionFromState,          \* state at the last pointerdown
    velocity,                  \* pointerup: const velocity of the last pointerup
    nEvents                    \* pointer events so far (bound of the model)

ctl == <<pos, vel, springTarget, state, pointerId, lastY, lastMoveTime, moveHistory>>

geo == <<vh, ch, min, max>>

host == <<capture, active>>

view == <<contentY, thumbHeight, thumbY>>

session == <<sessionLog, sessionFrom, sessionInside, sessionFromState>>

vars == <<geo, ctl, host, view, ev, pre, session, velocity, nEvents>>

\* The fields an event starts from, kept for stating what the event did.
Snapshot ==
    [ state |-> state, pos |-> pos, vel |-> vel, springTarget |-> springTarget ]

\* ------------------------------------------------------------------------
\* Pure functions of the program
\* ------------------------------------------------------------------------

\* pos < min || pos > max
OutOfBounds(p, lo, hi) == p < lo \/ p > hi

\* Mutant of ViolatedBound: the spring targets the current position.
ViolatedBoundIsPos(p, lo, hi) == p

\* this.pos < this.min ? this.min : this.max
ViolatedBound(p, lo, hi) == IF p < lo THEN lo ELSE hi

RECURSIVE SumDy(_)
SumDy(h) == IF h = <<>> THEN 0 ELSE Head(h).dy + SumDy(Tail(h))

RECURSIVE SumDt(_)
SumDt(h) == IF h = <<>> THEN 0 ELSE Head(h).dt + SumDt(Tail(h))

\* Mutant of estimateVelocity: px per ms, the factor 1000 is missing.
estimateVelocityPerMs(h) ==
    LET totalDy == SumDy(h)
        totalDt == SumDt(h)
    IN  IF totalDt > 0 THEN RoundDiv(totalDy * SCALE, totalDt) ELSE 0

\* estimateVelocity(): px/s as a fixed-point number.
estimateVelocity(h) ==
    LET totalDy == SumDy(h)
        totalDt == SumDt(h)
    IN  IF totalDt > 0 THEN RoundDiv(totalDy * 1000 * SCALE, totalDt) ELSE 0

\* Mutant of ClampVel: the velocity is not clamped.
ClampVelNone(v) == v

\* Math.max(Math.min(velocity, MAX_VEL), -MAX_VEL)
ClampVel(v) == MaxOf(MinOf(v, MAX_VEL * SCALE), -(MAX_VEL * SCALE))

\* Mutant of DragPos: no damping out of bounds.
DragPosUndamped(p, dy, lo, hi) == p + dy * SCALE

\* Mutant of DragPos: the displacement is applied with the opposite sign.
DragPosInverted(p, dy, lo, hi) ==
    IF OutOfBounds(p, lo, hi) THEN p - Pct(dy * SCALE, RUBBER) ELSE p - dy * SCALE

\* pointermove: the new pos, dy damped by 0.4 when pos is out of bounds.
DragPos(p, dy, lo, hi) ==
    IF OutOfBounds(p, lo, hi) THEN p + Pct(dy * SCALE, RUBBER) ELSE p + dy * SCALE

\* Mutant of PushMove: a full history drops the new entry, not the oldest.
PushMoveDropsNewest(h, m) == IF Len(h) >= HISTORY_CAP THEN h ELSE Append(h, m)

\* pointermove: moveHistory.push(m); if (length > 5) shift()
PushMove(h, m) ==
    LET h2 == Append(h, m)
    IN  IF Len(h2) > HISTORY_CAP THEN Tail(h2) ELSE h2

\* Mutant of ReleasedId: pointerup keeps the pointer id.
ReleasedIdKept(id) == id

\* pointerup: if (pointerId != null) { releasePointerCapture; pointerId = null }
ReleasedId(id) == IF id # NULL THEN NULL ELSE id

\* Mutant of ReleaseState: the velocity test comes before the bounds test.
ReleaseStateVelocityFirst(p, v, lo, hi) ==
    IF Abs(v) > STOP_VEL * SCALE THEN "Decel"
    ELSE IF OutOfBounds(p, lo, hi) THEN "Spring"
    ELSE "Idle"

\* pointerup: the state chosen from pos and the estimated velocity.
ReleaseState(p, v, lo, hi) ==
    IF OutOfBounds(p, lo, hi) THEN "Spring"
    ELSE IF Abs(v) > STOP_VEL * SCALE THEN "Decel"
    ELSE "Idle"

\* animate, Decel: pos += vel * (1/60)
DecelPos(p, v) == p + RoundDiv(v, FPS)

\* animate, Decel: vel *= FRICTION
DecelVel(v) == Pct(v, FRICTION)

\* Mutant of DecelState: a coast inside the bounds never stops.
DecelStateNeverStops(p, v, lo, hi) ==
    IF OutOfBounds(p, lo, hi) THEN "Spring" ELSE "Decel"

\* Mutant of DecelState: the velocity threshold has priority over the bounds.
DecelStateIdleFirst(p, v, lo, hi) ==
    IF Abs(v) < STOP_VEL * SCALE THEN "Idle"
    ELSE IF OutOfBounds(p, lo, hi) THEN "Spring"
    ELSE "Decel"

\* animate, Decel: the state after the frame, from the new pos and vel.
DecelState(p, v, lo, hi) ==
    IF OutOfBounds(p, lo, hi) THEN "Spring"
    ELSE IF Abs(v) < STOP_VEL * SCALE THEN "Idle"
    ELSE "Decel"

\* animate, Spring: Math.abs(delta) < 0.5
SpringDone(delta) == 2 * Abs(delta) < SCALE

\* Mutant of SpringVel: a spring ten times as stiff, which overshoots.
SpringVelStiff(delta) == Pct(delta, 10 * SPRING_K)

\* Mutant of SpringVel: the spring does not pull.
SpringVelZero(delta) == 0

\* animate, Spring: vel = delta * SPRING_K
SpringVel(delta) == Pct(delta, SPRING_K)

\* Mutant of SpringPos: no snap to the target when the spring ends.
SpringPosNoSnap(p, target) == p + SpringVel(target - p)

\* animate, Spring: pos += vel, then the snap to the target
SpringPos(p, target) ==
    IF SpringDone(target - p) THEN target ELSE p + SpringVel(target - p)

\* updateThumb(): the height of the thumb (fixed point).
ThumbHeightOf(v, c) == MaxOf(RoundDiv(v * v * SCALE, c), MIN_THUMB * SCALE)

\* Units of the fixed-point representation of scrollRatio (a pure number).
RATIO_SCALE == 1000

\* Mutant of ScrollRatio: the division is not guarded by this.max > 0.
ScrollRatioUnguarded(hi, p) == RoundDiv(p * RATIO_SCALE, MaxOf(hi, SCALE))

\* updateThumb(): scrollRatio = this.max > 0 ? this.pos / this.max : 0
ScrollRatio(hi, p) == IF hi > 0 THEN RoundDiv(p * RATIO_SCALE, hi) ELSE 0

\* updateThumb(): the translateY of the thumb (fixed point).
ThumbYOf(v, c, hi, p) ==
    LET maxThumbY == v * SCALE - ThumbHeightOf(v, c)
    IN  RoundDiv(maxThumbY * ScrollRatio(hi, p), RATIO_SCALE)

\* ------------------------------------------------------------------------
\* Initial state: the constructor, including its first call of animate()
\* ------------------------------------------------------------------------

InitFor(geometries) ==
    /\ \E g \in geometries :
         /\ vh = g[1]
         /\ ch = g[2]
         /\ max = MaxOf(g[2] - g[1], 0) * SCALE
         /\ thumbHeight = ThumbHeightOf(g[1], g[2])
    /\ min = 0
    /\ pos = 0
    /\ vel = 0
    /\ springTarget = 0
    /\ state = "Idle"
    /\ pointerId = NULL
    /\ lastY = 0
    /\ lastMoveTime = 0
    /\ moveHistory = <<>>
    /\ capture = NULL
    /\ active = FALSE
    /\ contentY = 0
    /\ thumbY = 0
    /\ ev = "construct"
    /\ pre = [ state |-> "Idle", pos |-> 0, vel |-> 0, springTarget |-> 0 ]
    /\ sessionLog = <<>>
    /\ sessionFrom = 0
    /\ sessionInside = TRUE
    /\ sessionFromState = "Idle"
    /\ velocity = 0
    /\ nEvents = 0

Init == InitFor(Geometries)

\* ------------------------------------------------------------------------
\* Event handlers
\* ------------------------------------------------------------------------

\* Mutant of PointerDown: the history of the previous drag is kept.
PointerDownKeepsHistory(id, y, t) ==
    /\ pointerId' = id
    /\ capture' = id
    /\ state' = "Drag"
    /\ vel' = 0
    /\ lastY' = y
    /\ lastMoveTime' = t
    /\ active' = TRUE
    /\ ev' = "pointerdown"
    /\ pre' = Snapshot
    /\ sessionLog' = <<>>
    /\ sessionFrom' = pos
    /\ sessionInside' = TRUE
    /\ sessionFromState' = state
    /\ nEvents' = nEvents + 1
    /\ UNCHANGED <<geo, pos, springTarget, moveHistory, view, velocity>>

\* Mutant of PointerDown: the velocity is not reset.
PointerDownKeepsVel(id, y, t) ==
    /\ pointerId' = id
    /\ capture' = id
    /\ state' = "Drag"
    /\ lastY' = y
    /\ lastMoveTime' = t
    /\ moveHistory' = <<>>
    /\ active' = TRUE
    /\ ev' = "pointerdown"
    /\ pre' = Snapshot
    /\ sessionLog' = <<>>
    /\ sessionFrom' = pos
    /\ sessionInside' = TRUE
    /\ sessionFromState' = state
    /\ nEvents' = nEvents + 1
    /\ UNCHANGED <<geo, pos, vel, springTarget, view, velocity>>

\* viewport "pointerdown"
PointerDown(id, y, t) ==
    /\ pointerId' = id
    /\ capture' = id
    /\ state' = "Drag"
    /\ vel' = 0
    /\ lastY' = y
    /\ lastMoveTime' = t
    /\ moveHistory' = <<>>
    /\ active' = TRUE
    /\ ev' = "pointerdown"
    /\ pre' = Snapshot
    /\ sessionLog' = <<>>
    /\ sessionFrom' = pos
    /\ sessionInside' = TRUE
    /\ sessionFromState' = state
    /\ nEvents' = nEvents + 1
    /\ UNCHANGED <<geo, pos, springTarget, view, velocity>>

\* viewport "pointermove" while state is "Drag"
PointerMoveDrag(y, t) ==
    /\ state = "Drag"
    /\ LET dy == y - lastY
           m  == [ dy |-> dy, dt |-> t - lastMoveTime ]
       IN  /\ pos' = DragPos(pos, dy, min, max)
           /\ moveHistory' = PushMove(moveHistory, m)
           /\ sessionLog' = Append(sessionLog, m)
    /\ lastY' = y
    /\ lastMoveTime' = t
    /\ ev' = "pointermove"
    /\ pre' = Snapshot
    /\ sessionInside' = (sessionInside /\ ~OutOfBounds(pos, min, max))
    /\ nEvents' = nEvents + 1
    /\ UNCHANGED <<geo, vel, springTarget, state, pointerId, host, view, sessionFrom,
                   sessionFromState, velocity>>

\* Mutant of PointerMoveIgnored: the reference point is tracked before the
\* state is tested.
PointerMoveTracksY(y, t) ==
    /\ state # "Drag"
    /\ lastY' = y
    /\ lastMoveTime' = t
    /\ ev' = "pointermove"
    /\ pre' = Snapshot
    /\ UNCHANGED <<geo, pos, vel, springTarget, state, pointerId, moveHistory, host,
                   view, session, velocity, nEvents>>

\* viewport "pointermove" in another state: the handler returns at once
PointerMoveIgnored(y, t) ==
    /\ state # "Drag"
    /\ ev' = "pointermove"
    /\ pre' = Snapshot
    /\ UNCHANGED <<geo, ctl, host, view, session, velocity, nEvents>>

\* viewport "pointerup"
PointerUp ==
    /\ pointerId' = ReleasedId(pointerId)
    /\ capture' = IF pointerId # NULL THEN NULL ELSE capture
    /\ active' = FALSE
    /\ LET v    == estimateVelocity(moveHistory)
           next == ReleaseState(pos, v, min, max)
       IN  /\ velocity' = v
           /\ state' = next
           /\ springTarget' = IF next = "Spring" THEN ViolatedBound(pos, min, max)
                              ELSE springTarget
           /\ vel' = IF next = "Decel" THEN ClampVel(v) ELSE vel
    /\ ev' = "pointerup"
    /\ pre' = Snapshot
    /\ nEvents' = nEvents + 1
    /\ UNCHANGED <<geo, pos, lastY, lastMoveTime, moveHistory, view, session>>

\* viewport "pointercancel": the host ends the session and drops the capture;
\* bindEvents registers no handler for it.
PointerCancel ==
    /\ capture # NULL
    /\ capture' = NULL
    /\ ev' = "pointercancel"
    /\ pre' = Snapshot
    /\ nEvents' = nEvents + 1
    /\ UNCHANGED <<geo, ctl, active, view, session, velocity>>

\* ------------------------------------------------------------------------
\* animate(): one frame
\* ------------------------------------------------------------------------

\* content.style.transform and updateThumb()
Render(p) ==
    /\ contentY' = -MathRound(p)
    /\ thumbHeight' = ThumbHeightOf(vh, ch)
    /\ thumbY' = ThumbYOf(vh, ch, max, p)

Animate ==
    /\ IF state = "Decel" THEN
          LET p2 == DecelPos(pos, vel)
              v2 == DecelVel(vel)
              s2 == DecelState(p2, v2, min, max)
          IN  /\ pos' = p2
              /\ vel' = v2
              /\ state' = s2
              /\ springTarget' = IF s2 = "Spring" THEN ViolatedBound(p2, min, max)
                                 ELSE springTarget
              /\ Render(p2)
       ELSE IF state = "Spring" THEN
          LET delta == springTarget - pos
              p2    == SpringPos(pos, springTarget)
          IN  /\ vel' = SpringVel(delta)
              /\ pos' = p2
              /\ state' = IF SpringDone(delta) THEN "Idle" ELSE "Spring"
              /\ springTarget' = springTarget
              /\ Render(p2)
       ELSE
          /\ UNCHANGED <<pos, vel, state, springTarget>>
          /\ Render(pos)
    /\ ev' = "animate"
    /\ pre' = Snapshot
    /\ UNCHANGED <<geo, pointerId, lastY, lastMoveTime, moveHistory, host, session,
                   velocity, nEvents>>

\* ------------------------------------------------------------------------
\* Specifications
\* ------------------------------------------------------------------------

\* Every event in every order, MaxEvents pointer events at most.
Next ==
    \/ /\ nEvents < MaxEvents
       /\ \E id \in PointerIds, y \in Ys, d \in DownDts : PointerDown(id, y, lastMoveTime + d)
    \/ /\ nEvents < MaxEvents
       /\ \E m \in MoveInputs : PointerMoveDrag(m[1], lastMoveTime + m[2])
    \/ \E m \in MoveInputs : PointerMoveIgnored(m[1], lastMoveTime + m[2])
    \/ /\ nEvents < MaxEvents
       /\ PointerUp
    \/ /\ nEvents < MaxEvents
       /\ PointerCancel
    \/ Animate

Spec == Init /\ [][Next]_vars

\* Long drags: pointerdown, pointermove and frames only.
NextDrag ==
    \/ /\ nEvents < MaxDragEvents
       /\ \E id \in PointerIds, y \in Ys, d \in DownDts : PointerDown(id, y, lastMoveTime + d)
    \/ /\ nEvents < MaxDragEvents
       /\ \E m \in MoveInputs : PointerMoveDrag(m[1], lastMoveTime + m[2])
    \/ Animate

DragSpec == Init /\ [][NextDrag]_vars

\* Every event in every order, MaxLiveEvents pointer events at most; frames
\* keep coming, as animate() requests its next frame on every call.
NextLive ==
    \/ /\ nEvents < MaxLiveEvents
       /\ \E id \in PointerIds, y \in Ys, d \in DownDts : PointerDown(id, y, lastMoveTime + d)
    \/ /\ nEvents < MaxLiveEvents
       /\ \E m \in MoveInputs : PointerMoveDrag(m[1], lastMoveTime + m[2])
    \/ \E m \in MoveInputs : PointerMoveIgnored(m[1], lastMoveTime + m[2])
    \/ /\ nEvents < MaxLiveEvents
       /\ PointerUp
    \/ /\ nEvents < MaxLiveEvents
       /\ PointerCancel
    \/ Animate

LiveSpec == Init /\ [][NextLive]_vars /\ WF_vars(Animate)

\* The end-to-end scenario: viewport 500, content 1500, drags by 300 px.
NextScenario ==
    \/ /\ nEvents < MaxScenarioEvents
       /\ \E id \in PointerIds, y \in ScenarioYs, d \in DownDts :
             PointerDown(id, y, lastMoveTime + d)
    \/ /\ nEvents < MaxScenarioEvents
       /\ \E m \in ScenarioMoves : PointerMoveDrag(m[1], lastMoveTime + m[2])
    \/ /\ nEvents < MaxScenarioEvents
       /\ PointerUp
    \/ Animate

ScenarioSpec == InitFor(ScenarioGeometries) /\ [][NextScenario]_vars

\* Content that fits the viewport (max = 0): every event but pointercancel.
NextThumb ==
    \/ /\ nEvents < MaxThumbEvents
       /\ \E id \in PointerIds, y \in Ys, d \in DownDts : PointerDown(id, y, lastMoveTime + d)
    \/ /\ nEvents < MaxThumbEvents
       /\ \E m \in MoveInputs : PointerMoveDrag(m[1], lastMoveTime + m[2])
    \/ \E m \in MoveInputs : PointerMoveIgnored(m[1], lastMoveTime + m[2])
    \/ /\ nEvents < MaxThumbEvents
       /\ PointerUp
    \/ Animate

ThumbSpec == InitFor(FittingGeometries) /\ [][NextThumb]_vars

\* ------------------------------------------------------------------------
\* Properties
\* ------------------------------------------------------------------------

\* The position the last event started from was outside [min, max].
PreOutOfBounds == pre.pos < min \/ pre.pos > max

\* The velocity estimated from the current history.
Estimated == estimateVelocity(moveHistory)

\* The last n entries of s.
LastN(s, n) == SubSeq(s, Len(s) - n + 1, Len(s))

\* C1: a pointerup with pos below min or above max always enters Spring, with
\* springTarget the violated bound (min below, max above), never Decel or Idle,
\* whatever velocity moveHistory yields.
C1_ReleaseOutOfBoundsSprings ==
    (ev = "pointerup" /\ PreOutOfBounds) =>
        /\ state = "Spring"
        /\ springTarget = (IF pre.pos < min THEN min ELSE max)

\* A drag released above max with a noticeable estimated velocity.
C1_Witness ==
    /\ ev = "pointerup"
    /\ pre.state = "Drag"
    /\ pre.pos > max
    /\ Abs(Estimated) > STOP_VEL * SCALE
    /\ state = "Spring"

\* C2: a pointerup with pos inside [min, max] and estimated velocity v enters
\* Decel with vel = v clamped to [-2000, 2000] when |v| > 5, and Idle otherwise.
C2_ReleaseInBounds ==
    (ev = "pointerup" /\ ~PreOutOfBounds) =>
        IF Abs(Estimated) > 5 * SCALE
        THEN /\ state = "Decel"
             /\ vel = (IF Estimated > 2000 * SCALE THEN 2000 * SCALE
                       ELSE IF Estimated < -(2000 * SCALE) THEN -(2000 * SCALE)
                       ELSE Estimated)
             /\ Abs(vel) <= 2000 * SCALE
        ELSE state = "Idle"

\* A drag released in bounds with an estimated velocity above MAX_VEL.
C2_Witness ==
    /\ ev = "pointerup"
    /\ pre.state = "Drag"
    /\ ~PreOutOfBounds
    /\ Estimated > MAX_VEL * SCALE
    /\ state = "Decel"
    /\ vel = MAX_VEL * SCALE

\* C3: a pointerdown in any state sets state = Drag, vel = 0 and an empty
\* moveHistory, and leaves pos unchanged.
C3_DownPreempts ==
    ev = "pointerdown" =>
        /\ state = "Drag"
        /\ vel = 0
        /\ moveHistory = <<>>
        /\ pos = pre.pos

\* A pointerdown that arrived during Decel, with a velocity to discard.
C3_Witness ==
    /\ ev = "pointerdown"
    /\ pre.state = "Decel"
    /\ pre.vel # 0
    /\ pre.pos # 0

\* C4: a pointermove in Drag changes pos by dy when pos was inside [min, max]
\* and by 0.4 * dy when it was outside; while every move of the session started
\* inside, pos is the pos at the pointerdown plus the sum of the dy.
C4_DragDisplacement ==
    (ev = "pointermove" /\ pre.state = "Drag") =>
        LET dy == sessionLog[Len(sessionLog)].dy
        IN  /\ ~PreOutOfBounds => pos - pre.pos = dy * SCALE
            /\ PreOutOfBounds => 5 * (pos - pre.pos) = 2 * dy * SCALE
            /\ sessionInside => pos = sessionFrom + SumDy(sessionLog) * SCALE

\* A damped move: a pointermove with dy # 0 that started out of bounds, in a
\* session with an undamped move before it.
C4_Witness ==
    /\ ev = "pointermove"
    /\ pre.state = "Drag"
    /\ PreOutOfBounds
    /\ Len(sessionLog) >= 2
    /\ sessionLog[Len(sessionLog)].dy # 0
    /\ sessionLog[1].dy # 0

\* C5: in Idle, min <= pos <= max.
C5_IdleInBounds == state = "Idle" => (min <= pos /\ pos <= max)

\* Idle reached by a spring that returned to max.
C5_Witness ==
    /\ state = "Idle"
    /\ ev = "animate"
    /\ pre.state = "Spring"
    /\ max > 0
    /\ pos = max

\* C6: state = Drag exactly when a captured pointer id is held.
C6_DragIffCaptured == (state = "Drag") <=> (pointerId # NULL)

\* A pointerup that arrived while the state was not Drag.
C6_Witness ==
    /\ ev = "pointerup"
    /\ pre.state # "Drag"
    /\ pointerId = NULL
    /\ nEvents >= 3

\* C7: a session cancelled by the host during Drag is treated as a pointerup:
\* the state becomes the one a release chooses, and is no longer Drag.
C7_CancelEndsDrag ==
    (ev = "pointercancel" /\ pre.state = "Drag") =>
        state = ReleaseState(pos, Estimated, min, max)

\* C8: vel # 0 only in Decel and Spring; vel = 0 in Idle and Drag.
C8_VelocityOnlyInMotion == vel # 0 => state \in { "Decel", "Spring" }

\* C9: in Spring, springTarget is min or max; springTarget changes only in a
\* step into Spring, taken by a pointerup or by a frame of Decel.
C9_SpringTarget ==
    /\ [](state = "Spring" => springTarget \in { min, max })
    /\ [][ springTarget' # springTarget =>
             /\ state' = "Spring"
             /\ \/ ev' = "pointerup"
                \/ ev' = "animate" /\ state = "Decel" ]_vars

\* Spring entered by a frame of Decel that overshot max, with a new target.
C9_Witness ==
    /\ state = "Spring"
    /\ ev = "animate"
    /\ pre.state = "Decel"
    /\ springTarget = max
    /\ pre.springTarget # springTarget

\* C10: moveHistory has at most 5 entries; during a drag it is the last
\* min(n, 5) of the n moves since the pointerdown, in the order of arrival.
C10_HistoryWindow ==
    /\ Len(moveHistory) <= 5
    /\ state = "Drag" =>
         moveHistory = LastN(sessionLog, MinOf(Len(sessionLog), 5))

\* A drag of more than 5 moves, the first of which differs from the latest.
C10_Witness ==
    /\ state = "Drag"
    /\ Len(sessionLog) >= 6
    /\ sessionLog[1] # sessionLog[Len(sessionLog)]
    /\ Len(moveHistory) = 5

\* The sum of the dy of the first n entries of h.
RECURSIVE DyUpTo(_, _)
DyUpTo(h, n) == IF n = 0 THEN 0 ELSE DyUpTo(h, n - 1) + h[n].dy

\* The sum of the dt of the first n entries of h.
RECURSIVE DtUpTo(_, _)
DtUpTo(h, n) == IF n = 0 THEN 0 ELSE DtUpTo(h, n - 1) + h[n].dt

\* C11: estimateVelocity returns (sum of dy / sum of dt) * 1000 over moveHistory
\* when the sum of dt is > 0 (here: to within half a quantum), and 0 when
\* moveHistory is empty or the sum of dt is 0; the pointerup that calls it
\* leaves moveHistory, pos, lastY and lastMoveTime as they were.
C11_EstimateVelocity ==
    /\ [](ev = "pointerup" =>
            LET D == DyUpTo(moveHistory, Len(moveHistory))
                T == DtUpTo(moveHistory, Len(moveHistory))
            IN  /\ T > 0 => 2 * Abs(velocity * T - D * 1000 * SCALE) <= T
                /\ T = 0 => velocity = 0)
    /\ [][ ev' = "pointerup" =>
             UNCHANGED <<moveHistory, pos, lastY, lastMoveTime>> ]_vars

\* A pointerup over a history of several moves, one of them with dt = 0, whose
\* quotient is not a whole number of quanta.
C11_Witness ==
    /\ ev = "pointerup"
    /\ Len(moveHistory) >= 3
    /\ \E i \in 1..Len(moveHistory) : moveHistory[i].dt = 0
    /\ velocity # 0
    /\ (SumDy(moveHistory) * 1000 * SCALE) % SumDt(moveHistory) # 0

\* C12: once a session has ended in Decel or Spring, frames lead to Idle with
\* min <= pos <= max unless a pointerdown starts a new drag first, and frames
\* leave Idle and its pos as they are.
C12_Settles ==
    /\ (state \in { "Decel", "Spring" }) ~>
          (state = "Drag" \/ (state = "Idle" /\ min <= pos /\ pos <= max))
    /\ [][ (state = "Idle" /\ ev' = "animate") =>
             (state' = "Idle" /\ pos' = pos) ]_vars

\* Decel that decayed into Idle strictly inside the bounds.
C12_Witness ==
    /\ state = "Idle"
    /\ ev = "animate"
    /\ pre.state = "Decel"
    /\ min < pos
    /\ pos < max

\* The scenario has just run: from the initial state with viewport 500 and
\* content 1500, a pointerdown, one pointermove of dy = -300 after 16 ms, and
\* the pointerup.
ScenarioDone ==
    /\ vh = 500 /\ ch = 1500 /\ max = 1000 * SCALE
    /\ ev = "pointerup"
    /\ pre.state = "Drag"
    /\ nEvents = 3
    /\ sessionFrom = 0
    /\ sessionLog = << [ dy |-> -300, dt |-> 16 ] >>

\* C13 as claimed: the scenario estimates -18750 px/s, sets vel = -2000 and
\* enters Decel.
C13_ScenarioCoasts ==
    ScenarioDone =>
        /\ velocity = -18750 * SCALE
        /\ vel = -(2000 * SCALE)
        /\ state = "Decel"

\* C13 as amended: the scenario estimates -18750 px/s, but pos = -300 is below
\* min, so the pointerup enters Spring with springTarget = min and vel stays 0.
C13_ScenarioSprings ==
    ScenarioDone =>
        /\ velocity = -18750 * SCALE
        /\ pos = -300 * SCALE
        /\ state = "Spring"
        /\ springTarget = min
        /\ vel = 0

\* The scenario has run to its pointerup.
C13_Witness == ScenarioDone /\ moveHistory = sessionLog /\ pos < min

C15_DecelFrame ==
    (ev = "animate" /\ pre.state = "Decel") =>
        /\ 2 * Abs(FPS * (pos - pre.pos) - pre.vel) <= FPS
        /\ 2 * Abs(100 * vel - FRICTION * pre.vel) <= 100
        /\ (pos < min) => (state = "Spring" /\ springTarget = min)
        /\ (pos > max) => (state = "Spring" /\ springTarget = max)
        /\ (min <= pos /\ pos <= max /\ Abs(vel) < STOP_VEL * SCALE) => state = "Idle"
        /\ (min <= pos /\ pos <= max /\ Abs(vel) >= STOP_VEL * SCALE) => state = "Decel"
        /\ (min <= pos /\ pos <= max) => springTarget = pre.springTarget

\* A frame in Decel has left the bounds with |vel| below STOP_VEL: it springs.
C15_Witness ==
    /\ ev = "animate"
    /\ pre.state = "Decel"
    /\ pos > max
    /\ Abs(vel) < STOP_VEL * SCALE
    /\ vel # 0
    /\ pos # pre.pos
    /\ state = "Spring"

\* C16: a frame in Spring takes delta = springTarget - pos before it moves and
\* adds 0.15 * delta to pos; when that |delta| < 0.5 it sets pos = springTarget
\* and state = Idle, otherwise the state stays Spring. Every such frame brings
\* pos strictly closer to springTarget and never past it.
C16_SpringFrame ==
    (ev = "animate" /\ pre.state = "Spring") =>
        LET delta == pre.springTarget - pre.pos
        IN  /\ springTarget = pre.springTarget
            /\ 2 * Abs(delta) < SCALE => (pos = springTarget /\ state = "Idle")
            /\ 2 * Abs(delta) >= SCALE =>
                  /\ state = "Spring"
                  /\ 2 * Abs(100 * (pos - pre.pos) - SPRING_K * delta) <= 100
            /\ Abs(springTarget - pos) < Abs(delta)
            /\ (springTarget - pos) * delta >= 0

\* The spring has run from out of bounds down to the snap onto its target.
C16_Witness ==
    /\ ev = "animate"
    /\ pre.state = "Spring"
    /\ state = "Idle"
    /\ pos = springTarget
    /\ pre.pos # pos
    /\ 2 * Abs(pre.springTarget - pre.pos) < SCALE

\* C17: a pointerup received while state is not Drag (Idle, Decel or Spring)
\* leaves state, pos and vel as they were.
C17_UpOutsideDragIgnored ==
    (ev = "pointerup" /\ pre.state # "Drag") =>
        (state = pre.state /\ pos = pre.pos /\ vel = pre.vel)

\* C18: a pointermove received while state is not Drag changes nothing: pos,
\* vel, state, springTarget, moveHistory, lastY and lastMoveTime (and what is
\* rendered) stay as they were.
C18_MoveOutsideDragIgnored ==
    [][ (ev' = "pointermove" /\ state # "Drag") => UNCHANGED <<geo, ctl, host, view>> ]_vars

\* A pointermove has arrived in the middle of a coast, which goes on.
C18_Witness ==
    /\ ev = "pointermove"
    /\ pre.state = "Decel"
    /\ state = "Decel"
    /\ vel = pre.vel
    /\ vel # 0
    /\ pos = pre.pos
    /\ moveHistory # <<>>

\* C19: in every reachable state, state = Decel implies min <= pos <= max and
\* 5 <= |vel| <= 2000.
C19_DecelInvariant ==
    state = "Decel" =>
        /\ min <= pos
        /\ pos <= max
        /\ STOP_VEL * SCALE <= Abs(vel)
        /\ Abs(vel) <= MAX_VEL * SCALE

\* A coast is under way: a frame in Decel has moved pos, slowed vel down and
\* stayed in Decel.
C19_Witness ==
    /\ state = "Decel"
    /\ ev = "animate"
    /\ pre.state = "Decel"
    /\ pos # pre.pos
    /\ Abs(vel) < Abs(pre.vel)

\* C20: a pointerup that ends a session without any pointermove (frames may
\* have run in between) never enters Decel: it yields Idle when pos is inside
\* [min, max] and Spring otherwise, pos is what it was at the pointerdown, and
\* a tap that interrupted a coast ends in Idle.
C20_TapStops ==
    (ev = "pointerup" /\ pre.state = "Drag" /\ sessionLog = <<>>) =>
        /\ state # "Decel"
        /\ (min <= pos /\ pos <= max) => state = "Idle"
        /\ (pos < min \/ pos > max) => state = "Spring"
        /\ pos = sessionFrom
        /\ sessionFromState = "Decel" => state = "Idle"

\* A tap has interrupted a coast and left the controller in Idle.
C20_Witness ==
    /\ ev = "pointerup"
    /\ pre.state = "Drag"
    /\ sessionLog = <<>>
    /\ sessionFromState = "Decel"
    /\ moveHistory = <<>>
    /\ velocity = 0
    /\ state = "Idle"
    /\ pos = sessionFrom
    /\ pos # 0

=============================================================================
